---- MODULE Spec2Model ----
(***************************************************************************)
(* Model of dist.py: package() and download_module_packages().  The        *)
(* network, the manifest, the version headers and the local module folder  *)
(* are the environment (variable world, fixed for a behaviour); request    *)
(* and archive failures are chosen at the step where they can happen.      *)
(***************************************************************************)
EXTENDS Integers, Sequences, FiniteSets, TLC

\* ------------------------------------------------------------ bounds
MaxReleases == 2      \* releases in one module's release list
MaxIncludes == 1      \* entries of a distribution's includes list
MaxHeaderLines == 3   \* #define lines of a version header
MaxProfile == 1       \* loaded_modules entries already in the profile file
MaxRuns == 2          \* calls of download_module_packages on one profile file

\* ------------------------------------------------------------ values
\* Python's None, for values that are otherwise records
None == [none |-> TRUE]
\* Python's None, for values that are otherwise strings
NoneStr == "None"

Range(s) == {s[k] : k \in 1..Len(s)}
SeqsUpTo(S, n) == UNION {[1..k -> S] : k \in 0..n}
Distinct(s) == \A a, b \in 1..Len(s) : a # b => s[a] # s[b]

Names == {"m1", "m2", "m3"}
Keys == {"A", "B", "C"}
Versions == {"1.0", "2.0", "3.0"}
Majors == {1, 2}
FileNames == {"a.zip", "b.zip"}

ARTIFACTS_FOLDER == <<".", "Artifacts">>
STAGING_FOLDER == ARTIFACTS_FOLDER \o <<"__staging__">>

\* str.lower() on the type strings an index carries
Lower(t) ==
  CASE t = "Plugin" -> "plugin"
    [] t = "Subsystem" -> "subsystem"
    [] OTHER -> t

\* f"{module_type}_api_version"
ApiKey(module_type) ==
  CASE module_type = "plugin" -> "plugin_api_version"
    [] module_type = "subsystem" -> "subsystem_api_version"
    [] OTHER -> "unknown_api_version"

\* os.path.basename of a url given as its path segments
BaseName(url) == url[Len(url)]

\* set(a JSON list)
ToSet(list) == Range(list)

\* ------------------------------------------------------------ parse_version
\* A header line "#define <prefix>_VERSION_<part> <value>"
Line(prefix, part, value) == [prefix |-> prefix, part |-> part, value |-> value]

\* The value the loop of parse_version leaves in major, minor or patch: that of
\* the last line that starts with the define, -1 for Python's None
LastDefine(lines, prefix, part) ==
  LET hits == {k \in 1..Len(lines) : lines[k].prefix = prefix /\ lines[k].part = part}
  IN IF hits = {} THEN -1
     ELSE lines[CHOOSE k \in hits : \A h \in hits : h <= k].value

\* parse_version: the version, or None where the code logs and calls exit(1)
parse_version(lines, version_define_prefix) ==
  LET major == LastDefine(lines, version_define_prefix, "MAJOR")
      minor == LastDefine(lines, version_define_prefix, "MINOR")
      patch == LastDefine(lines, version_define_prefix, "PATCH")
  IN IF major = -1 \/ minor = -1 \/ patch = -1 THEN None
     ELSE [major |-> major, minor |-> minor, patch |-> patch]

\* ------------------------------------------------------------ bundled set
\* set(conf["bundled_modules"] if "bundled_modules" in conf else [])
OwnBundled(conf) ==
  IF "bundled_modules" \in DOMAIN conf THEN ToSet(conf.bundled_modules) ELSE {}

\* As EffectiveBundled, with the includes of the included distributions followed too
EffectiveBundled_Transitive(conf, all) ==
  LET direct == IF "includes" \in DOMAIN conf
                THEN {j \in 1..Len(all) : all[j].key \in Range(conf.includes)} ELSE {}
      second == {j \in 1..Len(all) :
                   \E d \in direct : "includes" \in DOMAIN all[d]
                                      /\ all[j].key \in Range(all[d].includes)}
  IN OwnBundled(conf) \cup UNION {OwnBundled(all[k]) : k \in direct \cup second}

\* Lines 198-205: the distribution's own modules and those of every
\* distribution of the manifest whose key is in its includes
EffectiveBundled(conf, all) ==
  OwnBundled(conf) \cup
    (IF "includes" \in DOMAIN conf
     THEN UNION {OwnBundled(all[k]) :
                   k \in {j \in 1..Len(all) : all[j].key \in Range(conf.includes)}}
     ELSE {})

\* ------------------------------------------------------------ resolution
\* The release a loop with break leaves: the first of the list among those at
\* the positions hits, or None
FirstRelease(releases, hits) ==
  IF hits = {} THEN None
  ELSE releases[CHOOSE k \in hits : \A h \in hits : k <= h]

\* Line 234: the test that drops the pinned release
PinRejected(release, key, cur_major) ==
  key \notin DOMAIN release \/ release[key].major # cur_major

\* Line 240: the test of the latest-compatible scan
ScanAccepts(release, key, cur_major) ==
  key \notin DOMAIN release \/ release[key].major = cur_major

\* As PinnedChoice, with production_version ignored
PinnedChoice_Unpinned(production_version, releases, key, cur_major) == None

\* Lines 228-236: the pinned release after the compatibility test, or None
PinnedChoice(production_version, releases, key, cur_major) ==
  LET found == IF production_version = NoneStr THEN None
               ELSE FirstRelease(releases,
                                 {k \in 1..Len(releases) :
                                    releases[k].version = production_version})
  IN IF found # None /\ PinRejected(found, key, cur_major) THEN None ELSE found

\* As SuitableRelease, with the scan taking the compatible release of the
\* greatest version instead of the first of the list
SuitableRelease_Sorted(production_version, module_type, releases, cur_api_ver) ==
  LET key == ApiKey(module_type)
      cur_major == cur_api_ver[module_type].major
      pinned == PinnedChoice(production_version, releases, key, cur_major)
      Rank(v) == CASE v = "1.0" -> 1 [] v = "2.0" -> 2 [] OTHER -> 3
      ok == {k \in 1..Len(releases) : ScanAccepts(releases[k], key, cur_major)}
  IN IF pinned # None THEN pinned
     ELSE IF ok = {} THEN None
     ELSE releases[CHOOSE k \in ok :
                     \A h \in ok : Rank(releases[h].version) <= Rank(releases[k].version)]

\* Lines 225-242: suitable_release as the loop body leaves it at line 243
SuitableRelease(production_version, module_type, releases, cur_api_ver) ==
  LET key == ApiKey(module_type)
      cur_major == cur_api_ver[module_type].major
      pinned == PinnedChoice(production_version, releases, key, cur_major)
  IN IF pinned = None
     THEN FirstRelease(releases,
                       {k \in 1..Len(releases) : ScanAccepts(releases[k], key, cur_major)})
     ELSE pinned

\* ------------------------------------------------------------ profile file
\* As ProfileAfter, with loaded_modules replaced by the run's list
ProfileAfter_Replace(file, included) ==
  LET profile == IF file = None THEN [other |-> FALSE] ELSE file
  IN [other |-> profile.other, loaded_modules |-> included]

\* Lines 264-270: the JSON object written back, from the file read (None when
\* the file does not exist) and the run's resolved list
ProfileAfter(file, included) ==
  LET profile == IF file = None THEN [other |-> FALSE] ELSE file
      lm == IF "loaded_modules" \in DOMAIN profile THEN profile.loaded_modules ELSE <<>>
  IN [other |-> profile.other, loaded_modules |-> lm \o included]

\* ------------------------------------------------------------ environment
WithField(rec, name, present, val) == IF present THEN rec @@ (name :> val) ELSE rec

INDEX_URL == <<"idx">>
ModuleUrl(name) == <<"r", name>>

\* An optional JSON list: Absent, or Some(list)
Absent == {}
Some(list) == {list}
TheList(opt) == CHOOSE l \in opt : TRUE

\* A distribution of bundle.json; bundled and includes are Absent when the key
\* is not in the JSON object
Dist(key, bundled, includes, local) ==
  WithField(
    WithField(
      WithField([key |-> key, module_index_url |-> INDEX_URL, engine_index_url |-> <<"eidx">>],
                "bundled_modules", bundled # Absent, TheList(bundled)),
      "includes", includes # Absent, TheList(includes)),
    "local_modules_folder", local, "cache")

\* A module descriptor of the index
Module(name, type, pv) ==
  WithField([name |-> name, type |-> type, url |-> ModuleUrl(name)],
            "production_version", pv # NoneStr, pv)

ApiVersion(major) == [major |-> major, minor |-> 0, patch |-> 0]

\* What a release declares for each module type: the major of its api
\* version, 0 when it has no such field
ApiDecls == [{"plugin", "subsystem"} -> {0} \cup Majors]
Declares(type, major) == [t \in {"plugin", "subsystem"} |-> IF t = type THEN major ELSE 0]
NoDecl == [t \in {"plugin", "subsystem"} |-> 0]

Release(version, url, decl) ==
  WithField(
    WithField([version |-> version, url |-> url],
              "plugin_api_version", decl["plugin"] # 0, ApiVersion(decl["plugin"])),
    "subsystem_api_version", decl["subsystem"] # 0, ApiVersion(decl["subsystem"]))

Header(prefix, major) ==
  <<Line(prefix, "MAJOR", major), Line(prefix, "MINOR", 0), Line(prefix, "PATCH", 0)>>

Lines(prefix) ==
  {Line(prefix, part, 0) : part \in {"MINOR", "PATCH"}}
    \cup {Line(prefix, "MAJOR", m) : m \in Majors}
    \cup {Line("OTHER", "MAJOR", 1)}

Headers(prefix) == SeqsUpTo(Lines(prefix), MaxHeaderLines)

CDN(file) == <<"cdn", file>>

\* Release lists with distinct versions, archives not in the local folder
ReleaseLists ==
  {rl \in SeqsUpTo({Release(v, CDN("b.zip"), d) : v \in Versions, d \in ApiDecls}, MaxReleases) :
     Distinct([k \in 1..Len(rl) |-> rl[k].version])}

\* One world: the arguments of the call, the documents the network serves, the
\* files of the machine, the
\* urls that cannot be fetched and the archives that cannot be opened
BaseWorld ==
  [entry |-> "download",
   calls |-> 1,
   dist_key |-> "A",
   should_sign_binaries |-> FALSE,
   manifest |-> <<Dist("A", Some(<<"m1", "m2">>), Absent, TRUE)>>,
   index |-> <<Module("m1", "plugin", NoneStr), Module("m2", "Subsystem", NoneStr)>>,
   releases |-> [u \in {ModuleUrl(n) : n \in Names} |->
                   CASE u = ModuleUrl("m1") -> <<Release("2.0", CDN("a.zip"), Declares("plugin", 2))>>
                     [] u = ModuleUrl("m2") -> <<Release("1.0", CDN("b.zip"), Declares("subsystem", 1))>>
                     [] OTHER -> <<Release("3.0", <<"mirror", "a.zip">>, NoDecl)>>],
   plugin_h |-> Header("NOS_PLUGIN_API", 2),
   subsystem_h |-> Header("NOS_SUBSYSTEM_API", 1),
   local_files |-> {"a.zip"},
   unreachable |-> {},
   corrupt |-> {},
   profile |-> None,
   target_dir |-> FALSE,
   artifacts |-> None,
   cwd_zips |-> {}]

\* Resolution: one module of either type, pinned or not, over every release list
ResolveWorlds ==
  {[BaseWorld EXCEPT !.index = <<Module("m1", t, pv)>>,
                     !.releases[ModuleUrl("m1")] = rl,
                     !.plugin_h = Header("NOS_PLUGIN_API", m),
                     !.subsystem_h = Header("NOS_SUBSYSTEM_API", m)] :
     t \in {"plugin", "Subsystem"}, pv \in {NoneStr} \cup Versions,
     rl \in ReleaseLists, m \in Majors}

\* Manifests of three distributions, each with its own module or none and an
\* includes list of distinct keys
IncludeLists == {Absent} \cup {Some(l) : l \in {q \in SeqsUpTo(Keys, MaxIncludes) : Distinct(q)}}
OwnModule(key) == CASE key = "A" -> "m1" [] key = "B" -> "m2" [] OTHER -> "m3"
DistsOf(key) ==
  {Dist(key, b, inc, FALSE) : b \in {Absent, Some(<<OwnModule(key)>>)}, inc \in IncludeLists}

BundleWorlds ==
  {[BaseWorld EXCEPT !.manifest = <<a, b, c>>,
                     !.index = <<Module("m1", "plugin", NoneStr),
                                 Module("m2", "Subsystem", NoneStr),
                                 Module("m3", "plugin", NoneStr)>>] :
     a \in DistsOf("A"), b \in DistsOf("B"), c \in DistsOf("C")}

\* The local module folder: configured or not, its files, the archive urls
AcquireWorlds ==
  {[BaseWorld EXCEPT !.manifest = <<Dist("A", Some(<<"m1", "m2">>), Absent, local)>>,
                     !.local_files = files,
                     !.releases[ModuleUrl("m1")] =
                        <<Release("2.0", <<host, f1>>, Declares("plugin", 2))>>,
                     !.releases[ModuleUrl("m2")] =
                        <<Release("1.0", CDN(f2), Declares("subsystem", 1))>>] :
     local \in BOOLEAN, files \in SUBSET FileNames, host \in {"cdn", "mirror"},
     f1 \in FileNames, f2 \in FileNames}

\* The profile file before the first call, and the number of calls
ProfileEntries == {[name |-> "m1", version |-> "2.0"], [name |-> "m0", version |-> "1.0"]}
Profiles ==
  {None, [other |-> FALSE], [other |-> TRUE]}
    \cup {[other |-> o, loaded_modules |-> lm] :
            o \in BOOLEAN, lm \in SeqsUpTo(ProfileEntries, MaxProfile)}

ProfileWorlds ==
  {[BaseWorld EXCEPT !.profile = p, !.calls = c, !.target_dir = d] :
     p \in Profiles, c \in 1..MaxRuns, d \in BOOLEAN}

\* The version headers
VersionWorlds ==
  {[BaseWorld EXCEPT !.plugin_h = h] : h \in Headers("NOS_PLUGIN_API")}
    \cup {[BaseWorld EXCEPT !.subsystem_h = h] : h \in Headers("NOS_SUBSYSTEM_API")}

\* Indexes of modules with distinct names, each with no release, an
\* incompatible release or a compatible one; m3 is not bundled
ShortLists(name) ==
  {<<>>,
   <<Release("1.0", CDN("b.zip"), Declares("plugin", 1))>>,
   <<Release("2.0", CDN("b.zip"), Declares("plugin", 2))>>}

IndexWorlds ==
  {[BaseWorld EXCEPT !.index = [k \in 1..Len(order) |-> Module(order[k], "plugin", NoneStr)],
                     !.releases = [u \in DOMAIN BaseWorld.releases |->
                                     CASE u = ModuleUrl("m1") -> r1
                                       [] u = ModuleUrl("m2") -> r2
                                       [] OTHER -> r3]] :
     order \in {o \in SeqsUpTo(Names, 3) : Distinct(o)},
     r1 \in ShortLists("m1"), r2 \in ShortLists("m2"), r3 \in ShortLists("m3")}

\* package(): the key asked for, the manifest, the folders before the call
PackageManifests ==
  {<<Dist("A", b, inc, FALSE), Dist("B", Some(<<"m2">>), Absent, FALSE)>> :
     b \in {Absent, Some(<<>>), Some(<<"m1">>)}, inc \in {Absent, Some(<<"B">>)}}

PackageWorlds ==
  {[BaseWorld EXCEPT !.entry = "package", !.dist_key = k, !.manifest = m,
                     !.artifacts = a, !.cwd_zips = z, !.profile = p] :
     k \in {"A", "B", "Z"}, m \in PackageManifests,
     a \in {None, [zips |-> {}, staging |-> FALSE], [zips |-> {"old"}, staging |-> TRUE]},
     z \in {{}, {"old.zip"}},
     p \in {None, [other |-> TRUE]}}

\* Urls the network does not serve and archives that are no zip files
FailureWorlds ==
  {[BaseWorld EXCEPT !.entry = e, !.unreachable = u, !.corrupt = c,
                     !.manifest = <<Dist("A", Some(<<"m1", "m2", "m3">>), Absent, TRUE)>>,
                     !.index = Append(BaseWorld.index, Module("m3", "plugin", NoneStr))] :
     e \in {"download", "package"},
     u \in SUBSET {INDEX_URL, ModuleUrl("m1"), ModuleUrl("m2"), CDN("b.zip")},
     c \in SUBSET {<<"cache", "a.zip">>, CDN("b.zip")}}

\* ------------------------------------------------------------ state
VARIABLES
  world,               \* the environment of the behaviour
  pc,                  \* the line the program is at
  error,               \* why the program stopped, "" while it has not
  runs,                \* calls of the entry point so far
  ran,                 \* external processes run so far
  requests,            \* urls passed to requests.get by the current call, in order
  dists,               \* package: the manifest as loaded
  distconf,            \* the distribution selected (package) or passed (download)
  is_bundled,          \* package, line 313
  engine_settings,     \* package, lines 372-379
  all,                 \* download_module_packages: the manifest passed
  bundled_modules,     \* lines 198-205
  index,               \* line 210
  subsys_api_version,  \* line 211
  plugin_api_version,  \* line 212
  i,                   \* position of the loop of line 217 in index
  production_version,  \* line 222
  module_index,        \* line 223
  suitable_release,    \* lines 225-242
  included_modules,    \* lines 216, 246
  artifacts,           \* ./Artifacts: None, or its zip files and whether __staging__ exists
  staged,              \* what __staging__ holds
  cwd_zips,            \* *.zip files of the working directory
  target_dir,          \* whether target_dir exists
  extracted,           \* module directories under target_dir
  profile              \* the JSON of the profile file, None when there is no file

vars ==
  <<world, pc, error, runs, ran, requests, dists, distconf, is_bundled, engine_settings,
    all, bundled_modules, index, subsys_api_version, plugin_api_version, i,
    production_version, module_index, suitable_release, included_modules,
    artifacts, staged, cwd_zips, target_dir, extracted, profile>>

packageLocals == <<dists, is_bundled, engine_settings>>
downloadLocals ==
  <<all, bundled_modules, index, subsys_api_version, plugin_api_version, i,
    production_version, module_index, suitable_release, included_modules>>
files == <<artifacts, staged, cwd_zips, target_dir, extracted, profile>>

\* Line 215
cur_api_ver == [plugin |-> plugin_api_version, subsystem |-> subsys_api_version]

\* The module the loop of line 217 is at
module == index[i]
\* Line 227
module_type == Lower(module.type)

\* The locals of download_module_packages before line 194 and after it returns
NoLocals ==
  /\ all = <<>>
  /\ bundled_modules = {}
  /\ index = <<>>
  /\ subsys_api_version = None
  /\ plugin_api_version = None
  /\ i = 0
  /\ production_version = NoneStr
  /\ module_index = None
  /\ suitable_release = None
  /\ included_modules = <<>>

Init ==
  /\ \/ world \in ResolveWorlds
     \/ world \in BundleWorlds
     \/ world \in AcquireWorlds
     \/ world \in ProfileWorlds
     \/ world \in VersionWorlds
     \/ world \in IndexWorlds
     \/ world \in PackageWorlds
     \/ world \in FailureWorlds
  /\ pc = "idle"
  /\ error = ""
  /\ runs = 0
  /\ ran = {}
  /\ requests = <<>>
  /\ dists = <<>>
  /\ distconf = None
  /\ is_bundled = FALSE
  /\ engine_settings = None
  /\ NoLocals
  /\ artifacts = world.artifacts
  /\ staged = IF world.artifacts # None /\ world.artifacts.staging THEN {"stale"} ELSE {}
  /\ cwd_zips = world.cwd_zips
  /\ target_dir = world.target_dir
  /\ extracted = {}
  /\ profile = IF world.entry = "download" THEN world.profile ELSE None

\* The program stops: exit(code) or an exception that nothing catches
Stop(how, why) ==
  /\ pc' = how
  /\ error' = why

\* The first distribution of a manifest with the key, None when there is none
\* (the for/else of lines 305-311)
SelectDist(manifest, key) ==
  LET hits == {k \in 1..Len(manifest) : manifest[k].key = key}
  IN IF hits = {} THEN None
     ELSE manifest[CHOOSE k \in hits : \A h \in hits : k <= h]

\* ------------------------------------------------------------ download_module_packages
\* The directory z.extractall writes: target_dir/name/version, over what was there
Extract(dirs, name, version, from) ==
  {d \in dirs : ~(d.name = name /\ d.version = version)}
    \cup {[name |-> name, version |-> version, from |-> from]}

\* Line 194
DlMakedirs ==
  /\ pc = "dl_makedirs"
  /\ target_dir' = TRUE
  /\ pc' = "dl_bundled"
  /\ UNCHANGED <<world, error, runs, ran, requests, distconf, packageLocals, downloadLocals,
                 artifacts, staged, cwd_zips, extracted, profile>>

\* Lines 198-207
DlBundled ==
  /\ pc = "dl_bundled"
  /\ bundled_modules' = EffectiveBundled(distconf, all)
  /\ pc' = "dl_index"
  /\ UNCHANGED <<world, error, runs, ran, requests, distconf, packageLocals, files,
                 all, index, subsys_api_version, plugin_api_version, i,
                 production_version, module_index, suitable_release, included_modules>>

\* Lines 208-210: the index is fetched, or requests.get or .json() raises (the
\* url is one the network does not serve)
DlFetchIndex ==
  /\ pc = "dl_index"
  /\ requests' = Append(requests, distconf.module_index_url)
  /\ IF distconf.module_index_url \in world.unreachable
     THEN /\ Stop("raised", "index_fetch")
          /\ index' = index
     ELSE /\ index' = world.index
          /\ pc' = "dl_subsys"
          /\ error' = error
  /\ UNCHANGED <<world, runs, ran, distconf, packageLocals, files,
                 all, bundled_modules, subsys_api_version, plugin_api_version, i,
                 production_version, module_index, suitable_release, included_modules>>

\* Line 211: get_subsystem_api_version; parse_version exits on a missing define
DlSubsysVersion ==
  /\ pc = "dl_subsys"
  /\ LET v == parse_version(world.subsystem_h, "NOS_SUBSYSTEM_API")
     IN IF v = None
        THEN Stop("exit", "version_parse") /\ subsys_api_version' = subsys_api_version
        ELSE subsys_api_version' = v /\ pc' = "dl_plugin" /\ error' = error
  /\ UNCHANGED <<world, runs, ran, requests, distconf, packageLocals, files,
                 all, bundled_modules, index, plugin_api_version, i,
                 production_version, module_index, suitable_release, included_modules>>

\* Lines 212-216: get_plugin_api_version, then the loop starts with an empty list
DlPluginVersion ==
  /\ pc = "dl_plugin"
  /\ LET v == parse_version(world.plugin_h, "NOS_PLUGIN_API")
     IN IF v = None
        THEN Stop("exit", "version_parse") /\ UNCHANGED <<plugin_api_version, i>>
        ELSE plugin_api_version' = v /\ i' = 1 /\ pc' = "dl_loop" /\ error' = error
  /\ included_modules' = <<>>
  /\ UNCHANGED <<world, runs, ran, requests, distconf, packageLocals, files,
                 all, bundled_modules, index, subsys_api_version,
                 production_version, module_index, suitable_release>>

\* Lines 217-221: the next module of the index; one not bundled is passed over
DlNextModule ==
  /\ pc = "dl_loop"
  /\ IF i > Len(index)
     THEN pc' = "dl_profile" /\ i' = i
     ELSE IF module.name \notin bundled_modules
          THEN pc' = "dl_loop" /\ i' = i + 1
          ELSE pc' = "dl_releases" /\ i' = i
  /\ UNCHANGED <<world, error, runs, ran, requests, distconf, packageLocals, files,
                 all, bundled_modules, index, subsys_api_version, plugin_api_version,
                 production_version, module_index, suitable_release, included_modules>>

\* Lines 222-223: the module's release list is fetched, or the request raises
DlFetchReleases ==
  /\ pc = "dl_releases"
  /\ production_version' =
       IF "production_version" \in DOMAIN module THEN module.production_version ELSE NoneStr
  /\ requests' = Append(requests, module.url)
  /\ IF module.url \in world.unreachable
     THEN /\ Stop("raised", "releases_fetch")
          /\ module_index' = module_index
     ELSE /\ module_index' = [releases |-> world.releases[module.url]]
          /\ pc' = "dl_resolve"
          /\ error' = error
  /\ UNCHANGED <<world, runs, ran, distconf, packageLocals, files,
                 all, bundled_modules, index, subsys_api_version, plugin_api_version, i,
                 suitable_release, included_modules>>

\* Lines 225-242
DlResolve ==
  /\ pc = "dl_resolve"
  /\ suitable_release' =
       SuitableRelease(production_version, module_type, module_index.releases, cur_api_ver)
  /\ pc' = "dl_check"
  /\ UNCHANGED <<world, error, runs, ran, requests, distconf, packageLocals, files,
                 all, bundled_modules, index, subsys_api_version, plugin_api_version, i,
                 production_version, module_index, included_modules>>

\* As DlCheck, with break in the place of continue at line 245
DlCheck_Break ==
  /\ pc = "dl_check"
  /\ IF suitable_release = None
     THEN /\ pc' = "dl_profile"
          /\ i' = i
          /\ included_modules' = included_modules
     ELSE /\ pc' = "dl_local"
          /\ i' = i
          /\ included_modules' =
               Append(included_modules,
                      [name |-> module.name, version |-> suitable_release.version])
  /\ UNCHANGED <<world, error, runs, ran, requests, distconf, packageLocals, files,
                 all, bundled_modules, index, subsys_api_version, plugin_api_version,
                 production_version, module_index, suitable_release>>

\* Lines 243-246: a module without a suitable release is passed over, another
\* is added to the resolved list
DlCheck ==
  /\ pc = "dl_check"
  /\ IF suitable_release = None
     THEN /\ pc' = "dl_loop"
          /\ i' = i + 1
          /\ included_modules' = included_modules
     ELSE /\ pc' = "dl_local"
          /\ i' = i
          /\ included_modules' =
               Append(included_modules,
                      [name |-> module.name, version |-> suitable_release.version])
  /\ UNCHANGED <<world, error, runs, ran, requests, distconf, packageLocals, files,
                 all, bundled_modules, index, subsys_api_version, plugin_api_version,
                 production_version, module_index, suitable_release>>

\* As InLocalFolder, with the whole url looked up in the folder
InLocalFolder_WholeUrl(conf, zip_url) ==
  /\ "local_modules_folder" \in DOMAIN conf
  /\ zip_url \in {<<f>> : f \in world.local_files}

\* Lines 250-251: the archive is in the configured local folder
InLocalFolder(conf, zip_url) ==
  /\ "local_modules_folder" \in DOMAIN conf
  /\ BaseName(zip_url) \in world.local_files

\* f"{distconf['local_modules_folder']}/{zip_file_name}"
LocalPath(conf, zip_url) == <<conf.local_modules_folder, BaseName(zip_url)>>

\* Lines 247-256: the archive of the local folder is extracted (ZipFile raises
\* on a corrupt one); without one the loop body goes on to the download
DlLocal ==
  /\ pc = "dl_local"
  /\ IF InLocalFolder(distconf, suitable_release.url)
     THEN IF LocalPath(distconf, suitable_release.url) \in world.corrupt
          THEN /\ Stop("raised", "extract")
               /\ extracted' \in {extracted,
                                  Extract(extracted, module.name, suitable_release.version, "partial")}
               /\ i' = i
          ELSE /\ extracted' = Extract(extracted, module.name, suitable_release.version, "local")
               /\ pc' = "dl_loop"
               /\ i' = i + 1
               /\ error' = error
     ELSE /\ pc' = "dl_download"
          /\ UNCHANGED <<extracted, i, error>>
  /\ UNCHANGED <<world, runs, ran, requests, distconf, packageLocals,
                 artifacts, staged, cwd_zips, target_dir, profile,
                 all, bundled_modules, index, subsys_api_version, plugin_api_version,
                 production_version, module_index, suitable_release, included_modules>>

\* Lines 258-259: the archive is downloaded, or the request raises
DlDownload ==
  /\ pc = "dl_download"
  /\ requests' = Append(requests, suitable_release.url)
  /\ IF suitable_release.url \in world.unreachable
     THEN Stop("raised", "download")
     ELSE pc' = "dl_extract" /\ error' = error
  /\ UNCHANGED <<world, runs, ran, distconf, packageLocals, files, downloadLocals>>

\* As DlExtract, with the failure of an archive caught and the loop going on
DlExtract_Swallow ==
  /\ pc = "dl_extract"
  /\ extracted' = IF suitable_release.url \in world.corrupt THEN extracted
                  ELSE Extract(extracted, module.name, suitable_release.version, "download")
  /\ pc' = "dl_loop"
  /\ i' = i + 1
  /\ UNCHANGED <<world, error, runs, ran, requests, distconf, packageLocals,
                 artifacts, staged, cwd_zips, target_dir, profile,
                 all, bundled_modules, index, subsys_api_version, plugin_api_version,
                 production_version, module_index, suitable_release, included_modules>>

\* Lines 261-262: the downloaded archive is extracted, or ZipFile raises
DlExtract ==
  /\ pc = "dl_extract"
  /\ IF suitable_release.url \in world.corrupt
     THEN /\ Stop("raised", "extract")
          /\ extracted' \in {extracted,
                             Extract(extracted, module.name, suitable_release.version, "partial")}
          /\ i' = i
     ELSE /\ extracted' = Extract(extracted, module.name, suitable_release.version, "download")
          /\ pc' = "dl_loop"
          /\ i' = i + 1
          /\ error' = error
  /\ UNCHANGED <<world, runs, ran, requests, distconf, packageLocals,
                 artifacts, staged, cwd_zips, target_dir, profile,
                 all, bundled_modules, index, subsys_api_version, plugin_api_version,
                 production_version, module_index, suitable_release, included_modules>>

\* The return of download_module_packages: its locals are gone
Return ==
  /\ all' = <<>>
  /\ bundled_modules' = {}
  /\ index' = <<>>
  /\ subsys_api_version' = None
  /\ plugin_api_version' = None
  /\ i' = 0
  /\ production_version' = NoneStr
  /\ module_index' = None
  /\ suitable_release' = None
  /\ included_modules' = <<>>

\* Lines 263-272: the profile is read, extended and written; the call returns
\* to package (line 372) or to its caller
DlWriteProfile ==
  /\ pc = "dl_profile"
  /\ profile' = ProfileAfter(profile, included_modules)
  /\ pc' = IF world.entry = "package" THEN "pk_settings" ELSE "done"
  /\ Return
  /\ UNCHANGED <<world, error, runs, ran, requests, distconf, packageLocals,
                 artifacts, staged, cwd_zips, target_dir, extracted>>

Download ==
  \/ DlMakedirs \/ DlBundled \/ DlFetchIndex \/ DlSubsysVersion \/ DlPluginVersion
  \/ DlNextModule \/ DlFetchReleases \/ DlResolve \/ DlCheck \/ DlLocal
  \/ DlDownload \/ DlExtract \/ DlWriteProfile

\* ------------------------------------------------------------ package
\* Lines 298-304: ./Artifacts is removed with all it holds, the staging folder
\* is created, bundle.json is loaded
PkStart ==
  /\ pc = "pk_start"
  /\ artifacts' = [zips |-> {}, staging |-> TRUE]
  /\ staged' = {}
  /\ target_dir' = FALSE
  /\ extracted' = {}
  /\ profile' = None
  /\ dists' = world.manifest
  /\ pc' = "pk_select"
  /\ UNCHANGED <<world, error, runs, ran, requests, distconf, is_bundled, engine_settings,
                 downloadLocals, cwd_zips>>

\* As IsBundled, counting a non-empty includes list as well
IsBundled_WithIncludes(conf) ==
  \/ ("bundled_modules" \in DOMAIN conf /\ Len(conf.bundled_modules) > 0)
  \/ ("includes" \in DOMAIN conf /\ Len(conf.includes) > 0)

\* Line 313: "bundled_modules" in distconf and len(distconf["bundled_modules"]) > 0
IsBundled(conf) ==
  "bundled_modules" \in DOMAIN conf /\ Len(conf.bundled_modules) > 0

\* Lines 305-313: the distribution with the key, or exit(1)
PkSelect ==
  /\ pc = "pk_select"
  /\ LET dist == SelectDist(dists, world.dist_key)
     IN IF dist = None
        THEN /\ Stop("exit", "dist_key_not_found")
             /\ UNCHANGED <<distconf, is_bundled>>
        ELSE /\ distconf' = dist
             /\ is_bundled' = IsBundled(dist)
             /\ pc' = "pk_leftovers"
             /\ error' = error
  /\ UNCHANGED <<world, runs, ran, requests, dists, engine_settings, downloadLocals, files>>

\* Lines 315-318
PkLeftovers ==
  /\ pc = "pk_leftovers"
  /\ cwd_zips' = {}
  /\ pc' = "pk_env"
  /\ UNCHANGED <<world, error, runs, ran, requests, distconf, packageLocals, downloadLocals,
                 artifacts, staged, target_dir, extracted, profile>>

\* Lines 320-325: get_version_info_from_env exits when a variable is not set
PkVersionEnv ==
  /\ pc = "pk_env"
  /\ \/ pc' = "pk_nosman" /\ error' = error
     \/ Stop("exit", "version_env")
  /\ UNCHANGED <<world, runs, ran, requests, distconf, packageLocals, downloadLocals, files>>

\* Line 328, build_nosman: cargo build, then upx; a failed build exits
PkNosman ==
  /\ pc = "pk_nosman"
  /\ \/ /\ ran' = ran \cup {"cargo build", "upx"}
        /\ pc' = "pk_stage"
        /\ error' = error
     \/ /\ ran' = ran \cup {"cargo build"}
        /\ Stop("exit", "nosman_build")
  /\ UNCHANGED <<world, runs, requests, distconf, packageLocals, downloadLocals, files>>

\* Lines 329-342: nosman, the CMake files and the SDK are copied into staging
PkStage ==
  /\ pc = "pk_stage"
  /\ staged' = staged \cup {"nosman", "Toolchain/CMake", "Engine", "Module", "Engine/SDK"}
  /\ target_dir' = TRUE
  /\ pc' = "pk_init"
  /\ UNCHANGED <<world, error, runs, ran, requests, distconf, packageLocals, downloadLocals,
                 artifacts, cwd_zips, extracted, profile>>

\* Lines 345-354: nosman init in the staging folder; a failure exits
PkNosmanInit ==
  /\ pc = "pk_init"
  /\ ran' = ran \cup {"nosman init"}
  /\ \/ /\ staged' = staged \cup {".nosman"}
        /\ pc' = "pk_sdkzip"
        /\ error' = error
     \/ /\ Stop("exit", "nosman_init")
        /\ staged' = staged
  /\ UNCHANGED <<world, runs, requests, distconf, packageLocals, downloadLocals,
                 artifacts, cwd_zips, target_dir, extracted, profile>>

\* Lines 356-358
PkSdkZip ==
  /\ pc = "pk_sdkzip"
  /\ artifacts' = [artifacts EXCEPT !.zips = @ \cup {<<"Nodos-SDK">>}]
  /\ pc' = "pk_rest"
  /\ UNCHANGED <<world, error, runs, ran, requests, distconf, packageLocals, downloadLocals,
                 staged, cwd_zips, target_dir, extracted, profile>>

\* Lines 360-367: Binaries, Config (with the engine's Profile.json, if it has
\* one) and the EULA are copied; binaries are signed when asked
PkRest ==
  /\ pc = "pk_rest"
  /\ staged' = staged \cup {"Engine/Binaries", "Engine/Config", "Engine/EULA_UNCONFIRMED.json"}
  /\ profile' = world.profile
  /\ ran' = IF world.should_sign_binaries THEN ran \cup {"AzureSignTool"} ELSE ran
  /\ pc' = "pk_bundle"
  /\ UNCHANGED <<world, error, runs, requests, distconf, packageLocals, downloadLocals,
                 artifacts, cwd_zips, target_dir, extracted>>

\* Lines 369-370: download_module_packages(engine_folder, distconf, dists,
\* STAGING_FOLDER/Module, .../Config/Profile.json) for a bundled distribution
PkBundle ==
  /\ pc = "pk_bundle"
  /\ IF is_bundled
     THEN pc' = "dl_makedirs" /\ all' = dists
     ELSE pc' = "pk_settings" /\ all' = all
  /\ UNCHANGED <<world, error, runs, ran, requests, distconf, packageLocals, files,
                 bundled_modules, index, subsys_api_version, plugin_api_version, i,
                 production_version, module_index, suitable_release, included_modules>>

\* Lines 372-379
PkSettings ==
  /\ pc = "pk_settings"
  /\ engine_settings' = [remote_modules |-> <<[url |-> distconf.module_index_url]>>,
                         engine_index_url |-> distconf.engine_index_url]
  /\ pc' = "pk_archive"
  /\ UNCHANGED <<world, error, runs, ran, requests, distconf, dists, is_bundled,
                 downloadLocals, files>>

\* The name of the archive of line 382
ArchiveName(bundled, dist_key) ==
  IF bundled THEN <<"Nodos", "bundle", dist_key>> ELSE <<"Nodos">>

\* Lines 381-382
PkArchive ==
  /\ pc = "pk_archive"
  /\ artifacts' = [artifacts EXCEPT !.zips = @ \cup {ArchiveName(is_bundled, world.dist_key)}]
  /\ pc' = "done"
  /\ UNCHANGED <<world, error, runs, ran, requests, distconf, packageLocals, downloadLocals,
                 staged, cwd_zips, target_dir, extracted, profile>>

Package ==
  \/ PkStart \/ PkSelect \/ PkLeftovers \/ PkVersionEnv \/ PkNosman \/ PkStage
  \/ PkNosmanInit \/ PkSdkZip \/ PkRest \/ PkBundle \/ PkSettings \/ PkArchive

\* ------------------------------------------------------------ entry points
\* Lines 436-437: package(dist_key, engine_folder, False)
CallPackage ==
  /\ pc = "idle"
  /\ world.entry = "package"
  /\ runs' = runs + 1
  /\ pc' = "pk_start"
  /\ UNCHANGED <<world, error, ran, requests, distconf, packageLocals, downloadLocals, files>>

\* download_module_packages(engine_folder, distconf, all, target_dir,
\* profile_json_path) called on its own, a first time or again on the same
\* profile file after a call that returned
CallDownload ==
  /\ pc \in {"idle", "done"}
  /\ world.entry = "download"
  /\ runs < world.calls
  /\ SelectDist(world.manifest, world.dist_key) # None
  /\ runs' = runs + 1
  /\ distconf' = SelectDist(world.manifest, world.dist_key)
  /\ all' = world.manifest
  /\ requests' = <<>>
  /\ pc' = "dl_makedirs"
  /\ UNCHANGED <<world, error, ran, packageLocals, files,
                 bundled_modules, index, subsys_api_version, plugin_api_version, i,
                 production_version, module_index, suitable_release, included_modules>>

Next == CallPackage \/ CallDownload \/ Package \/ Download

Spec == Init /\ [][Next]_vars

\* ------------------------------------------------------------ properties
\* The lines of download_module_packages after line 207
DlAfterBundled ==
  {"dl_index", "dl_subsys", "dl_plugin", "dl_loop", "dl_releases", "dl_resolve",
   "dl_check", "dl_local", "dl_download", "dl_extract", "dl_profile"}
DlLabels == {"dl_makedirs", "dl_bundled"} \cup DlAfterBundled

\* What the claims speak of, for the module the loop is at: its pin, the
\* release list the network serves for it, the key of its type's api version
\* and the current major of that api
ThePin ==
  IF "production_version" \in DOMAIN module THEN module.production_version ELSE NoneStr
TheReleases == world.releases[module.url]
TheKey == ApiKey(Lower(module.type))
TheMajor == cur_api_ver[Lower(module.type)].major
Declared(r) == TheKey \in DOMAIN r
Compatible(r) == ~Declared(r) \/ r[TheKey].major = TheMajor

\* C1: when line 243 is reached for a module whose production_version names a
\* release that declares an api version of the module's type with the current
\* major, suitable_release is that release, wherever it stands in the list.
C1_PinnedCompatibleWins ==
  pc = "dl_check" =>
    \A k \in 1..Len(TheReleases) :
      LET r == TheReleases[k]
      IN (ThePin # NoneStr /\ r.version = ThePin /\ Declared(r) /\ r[TheKey].major = TheMajor)
           => suitable_release = r

\* C1 witness: the pinned release is chosen although a compatible release
\* stands before it.
C1_Witness ==
  /\ pc = "dl_check"
  /\ \E k \in 2..Len(TheReleases) :
       /\ TheReleases[k].version = ThePin
       /\ Declared(TheReleases[k])
       /\ Compatible(TheReleases[1])
       /\ suitable_release = TheReleases[k]

\* C2: a release without an api version of the module's type counts as
\* compatible wherever compatibility is tested: pinned, it is the release
\* chosen; in the scan for the latest compatible release no later release is
\* chosen over it.
C2_UndeclaredIsCompatible ==
  pc = "dl_check" =>
    \A k \in 1..Len(TheReleases) :
      LET r == TheReleases[k]
      IN ~Declared(r) =>
           /\ (ThePin # NoneStr /\ r.version = ThePin) => suitable_release = r
           /\ ThePin = NoneStr =>
                \E j \in 1..k : suitable_release = TheReleases[j]

\* C3: without a pin, with a pin that names no release, or with a pinned
\* release that declares another major, suitable_release is the first release
\* of the list as served that is compatible, and None when there is none; the
\* run has not stopped.
C3_Fallback ==
  LET NoPinHeld ==
        \/ ThePin = NoneStr
        \/ \A k \in 1..Len(TheReleases) : TheReleases[k].version # ThePin
        \/ \E k \in 1..Len(TheReleases) :
             /\ TheReleases[k].version = ThePin
             /\ Declared(TheReleases[k])
             /\ TheReleases[k][TheKey].major # TheMajor
      ok == {k \in 1..Len(TheReleases) : Compatible(TheReleases[k])}
  IN (pc = "dl_check" /\ NoPinHeld) =>
       /\ error = ""
       /\ module_index.releases = TheReleases
       /\ IF ok = {} THEN suitable_release = None
          ELSE \E k \in ok : (\A h \in ok : k <= h) /\ suitable_release = TheReleases[k]

\* C3 witness: the pinned release stands first and declares another major; the
\* release chosen is a later one of a lower version than one behind it.
C3_Witness ==
  /\ pc = "dl_check"
  /\ Len(TheReleases) = MaxReleases
  /\ TheReleases[1].version = ThePin
  /\ Declared(TheReleases[1])
  /\ TheReleases[1][TheKey].major # TheMajor
  /\ suitable_release = TheReleases[2]

\* C4: the bundled set is the distribution's own bundled_modules and those of
\* the distributions its includes list names, and no others; a module of the
\* index outside it has no release list fetched, no directory extracted and no
\* entry in the resolved list.
C4_Own(conf) ==
  IF "bundled_modules" \in DOMAIN conf
  THEN {conf.bundled_modules[k] : k \in 1..Len(conf.bundled_modules)}
  ELSE {}
C4_Set ==
  {n \in Names :
     \/ n \in C4_Own(distconf)
     \/ /\ "includes" \in DOMAIN distconf
        /\ \E k \in 1..Len(all), j \in 1..Len(distconf.includes) :
             distconf.includes[j] = all[k].key /\ n \in C4_Own(all[k])}
C4_EffectiveSet ==
  pc \in DlAfterBundled =>
    /\ bundled_modules = C4_Set
    /\ \A k \in 1..Len(included_modules) : included_modules[k].name \in C4_Set
    /\ \A k \in 1..Len(index) :
         index[k].name \notin C4_Set =>
           /\ \A r \in 1..Len(requests) : requests[r] # index[k].url
           /\ \A d \in extracted : d.name # index[k].name

\* C4 witness: the distribution includes B, B includes C, C bundles m3; at the
\* end of the loop m2 is bundled and resolved, m3 is in the index and is not.
C4_Witness ==
  /\ pc = "dl_profile"
  /\ distconf.key = "A"
  /\ "includes" \in DOMAIN distconf /\ distconf.includes = <<"B">>
  /\ \E b, c \in 1..Len(all) :
       /\ all[b].key = "B" /\ "includes" \in DOMAIN all[b] /\ all[b].includes = <<"C">>
       /\ all[c].key = "C" /\ "m3" \in C4_Own(all[c]) /\ "m2" \in C4_Own(all[b])
  /\ "m3" \notin bundled_modules
  /\ \E k \in 1..Len(index) : index[k].name = "m3"
  /\ \E k \in 1..Len(included_modules) : included_modules[k].name = "m2"

\* C5: no archive is requested whose base name is a file of the configured
\* local folder; when the loop goes on after a module whose archive is there,
\* the module's directory has been extracted from the local file.
C5_IsArchive(url) == url # INDEX_URL /\ url[1] # "r"
C5_InFolder(url) ==
  /\ distconf # None
  /\ "local_modules_folder" \in DOMAIN distconf
  /\ url[Len(url)] \in world.local_files
C5_CacheFirst ==
  /\ \A k \in 1..Len(requests) : C5_IsArchive(requests[k]) => ~C5_InFolder(requests[k])
  /\ (pc = "dl_loop" /\ suitable_release # None /\ C5_InFolder(suitable_release.url)) =>
       LET e == included_modules[Len(included_modules)]
       IN [name |-> e.name, version |-> e.version, from |-> "local"] \in extracted

\* C5 witness: a module was extracted from the local folder and the only
\* requests so far are those of the index and of its release list.
C5_Witness ==
  /\ pc = "dl_loop"
  /\ suitable_release # None
  /\ C5_InFolder(suitable_release.url)
  /\ \E d \in extracted : d.from = "local" /\ d.version = suitable_release.version
  /\ Len(requests) = 2

C6_Loaded(file) ==
  IF file # None /\ "loaded_modules" \in DOMAIN file THEN file.loaded_modules ELSE <<>>
\* C6: the step that writes the profile leaves in loaded_modules the entries
\* the file had, in their order, followed by the resolved list of the run, and
\* no other step of download_module_packages changes the file.
C6_Step ==
  pc \in DlLabels =>
    IF pc = "dl_profile"
    THEN /\ profile' # None
         /\ C6_Loaded(profile') = C6_Loaded(profile) \o included_modules
         /\ Len(C6_Loaded(profile')) = Len(C6_Loaded(profile)) + Len(included_modules)
    ELSE profile' = profile
C6_AppendOnly == [][C6_Step]_vars

\* C6 witness: two calls that returned, on a profile file that held one entry
\* equal to one the calls resolve; the file holds that entry, then the resolved
\* list twice.
C6_Witness ==
  /\ pc = "done"
  /\ runs = 2
  /\ world.profile # None
  /\ C6_Loaded(world.profile) = <<[name |-> "m1", version |-> "2.0"]>>
  /\ C6_Loaded(profile) =
       <<[name |-> "m1", version |-> "2.0"],
         [name |-> "m1", version |-> "2.0"], [name |-> "m2", version |-> "1.0"],
         [name |-> "m1", version |-> "2.0"], [name |-> "m2", version |-> "1.0"]>>

\* C7: at the end of the loop the resolved list names, in index order, the
\* bundled modules that have a compatible release and no others; a bundled
\* module without one has no directory, every bundled module with one has its
\* directory; and the program never stops for a cause other than the fatal ones.
C7_HasCompatible(m) ==
  \E k \in 1..Len(world.releases[m.url]) :
    LET r == world.releases[m.url][k]
        key == ApiKey(Lower(m.type))
    IN key \notin DOMAIN r \/ r[key].major = cur_api_ver[Lower(m.type)].major
C7_Resolvable ==
  SelectSeq(index, LAMBDA m : m.name \in bundled_modules /\ C7_HasCompatible(m))
C7_SkipContinues ==
  /\ pc = "dl_profile" =>
       /\ [k \in 1..Len(included_modules) |-> included_modules[k].name]
            = [k \in 1..Len(C7_Resolvable) |-> C7_Resolvable[k].name]
       /\ \A k \in 1..Len(index) :
            index[k].name \in bundled_modules =>
              (C7_HasCompatible(index[k]) <=> \E d \in extracted : d.name = index[k].name)
  /\ pc \in {"exit", "raised"} =>
       error \in {"dist_key_not_found", "version_env", "nosman_build", "nosman_init",
                  "index_fetch", "version_parse", "releases_fetch", "download", "extract"}

\* C7 witness: at the end of the loop a bundled module without a compatible
\* release stands in the index before a bundled module that was resolved and
\* extracted.
C7_Witness ==
  /\ pc = "dl_profile"
  /\ \E j, k \in 1..Len(index) :
       /\ j < k
       /\ index[j].name \in bundled_modules /\ ~C7_HasCompatible(index[j])
       /\ \E e \in 1..Len(included_modules) : included_modules[e].name = index[k].name
       /\ \E d \in extracted : d.name = index[k].name

\* C8: when the download or the extraction of an archive fails the program
\* has stopped at that module: the profile file is as before the call, no
\* release list of a later module was requested, the directories of the modules
\* resolved before it are in place; the loop never goes on after a module whose
\* archive fails, and the file is not written while the loop runs.
C8_Fails(release) ==
  IF "local_modules_folder" \in DOMAIN distconf
       /\ release.url[Len(release.url)] \in world.local_files
  THEN <<distconf.local_modules_folder, release.url[Len(release.url)]>> \in world.corrupt
  ELSE release.url \in world.unreachable \/ release.url \in world.corrupt
C8_AcquisitionFatal ==
  /\ (pc = "raised" /\ error \in {"download", "extract"}) =>
       /\ profile = world.profile
       /\ i \in 1..Len(index)
       /\ C8_Fails(suitable_release)
       /\ \A k \in (i + 1)..Len(index), r \in 1..Len(requests) : requests[r] # index[k].url
       /\ \A k \in 1..(Len(included_modules) - 1) :
            \E d \in extracted :
              /\ d.name = included_modules[k].name
              /\ d.version = included_modules[k].version
              /\ d.from # "partial"
  /\ (pc \in {"dl_loop", "dl_profile"} /\ suitable_release # None) => ~C8_Fails(suitable_release)
  /\ (pc \in DlLabels /\ runs = 1) => profile = world.profile

\* C8 witness: the archive of the second of three bundled modules fails to
\* extract; the first module's directory is there, the third was not reached.
C8_Witness ==
  /\ pc = "raised"
  /\ error = "extract"
  /\ i = 2
  /\ Len(index) = 3
  /\ index[3].name \in bundled_modules
  /\ Len(included_modules) = 2
  /\ \E d \in extracted : d.name = index[1].name /\ d.from = "local"
  /\ \E d \in extracted : d.name = index[2].name /\ d.from = "partial"

\* C9: when a version header fails to parse, download_module_packages stops
\* with the target directory not created, nothing requested, nothing extracted
\* and the profile file as it was.
C9_VersionErrorBeforeSideEffects ==
  (world.entry = "download" /\ pc = "exit" /\ error = "version_parse") =>
    /\ target_dir = world.target_dir
    /\ requests = <<>>
    /\ extracted = {}
    /\ profile = world.profile

\* C10: when the key names no distribution of the manifest, package stops with
\* ./Artifacts, the staging folder and the working directory as they were and
\* nothing built, copied, requested or extracted.
C10_UnknownKeyNoWork ==
  (pc = "exit" /\ error = "dist_key_not_found") =>
    /\ artifacts = world.artifacts
    /\ staged = (IF world.artifacts # None /\ world.artifacts.staging THEN {"stale"} ELSE {})
    /\ cwd_zips = world.cwd_zips
    /\ ran = {}
    /\ requests = <<>>
    /\ extracted = {}
    /\ NoLocals

\* The distribution package is asked for, and whether the manifest gives it a
\* non-empty bundled_modules list of its own
C11_Selected == SelectDist(world.manifest, world.dist_key)
C11_OwnBundled ==
  /\ C11_Selected # None
  /\ "bundled_modules" \in DOMAIN C11_Selected
  /\ Len(C11_Selected.bundled_modules) > 0

\* C11: package calls download_module_packages exactly when the selected
\* distribution has a non-empty bundled_modules list of its own. Without one
\* nothing is requested, resolved or extracted and the profile stays the
\* engine's, whatever the includes list names, and the archive is named
\* without the bundle suffix; with one the index has been requested by the
\* time the settings are written, and the archive carries the suffix.
C11_BundledIffOwn ==
  world.entry = "package" =>
    /\ (pc \in DlLabels => C11_OwnBundled)
    /\ (~C11_OwnBundled =>
          /\ requests = <<>>
          /\ extracted = {}
          /\ NoLocals
          /\ (profile = None \/ profile = world.profile))
    /\ (pc \in {"pk_settings", "pk_archive", "done"} =>
          (C11_OwnBundled <=> requests # <<>>))
    /\ (pc = "done" =>
          artifacts.zips =
            {<<"Nodos-SDK">>,
             IF C11_OwnBundled THEN <<"Nodos", "bundle", world.dist_key>> ELSE <<"Nodos">>})

\* package has finished for a distribution with no bundled_modules of its own
\* whose includes list names a distribution that has some
C11_Witness ==
  /\ world.entry = "package"
  /\ pc = "done"
  /\ ~C11_OwnBundled
  /\ "includes" \in DOMAIN C11_Selected
  /\ EffectiveBundled(C11_Selected, world.manifest) # {}

====
